---- MODULE Spec2Model ----
(***************************************************************************)
(* A model of torrentrss (src/torrentrss/_torrentrss.py): one invocation   *)
(* of main() builds the engine from the stored configuration, checks every *)
(* feed (fetch, match entries against subscriptions, download, dispatch)   *)
(* and writes the episode numbers back. The stored configuration and the   *)
(* remote feed documents outlive an invocation; everything else is rebuilt *)
(* by the next one.                                                        *)
(***************************************************************************)
EXTENDS Integers, Sequences, FiniteSets, TLC

VARIABLES
    json,              \* TorrentRSS._json as stored in the configuration file
    remote,            \* per feed: the document its url serves (fixed once observed)
    pc,                \* position of main()
    feeds,             \* TorrentRSS.feeds: per feed, per subscription, the live number
    fi,                \* check_feeds: index of the feed being processed
    ei,                \* matching_subs: listed index of the entry being scanned
    si,                \* matching_subs: index of the subscription being tried
    original_numbers,  \* matching_subs: the snapshot taken after the fetch
    fetched,           \* per feed: calls of feedparser.parse in this invocation
    yielded,           \* (sub, entry) pairs yielded in this invocation, in order
    downloaded,        \* calls of Feed.download_entry in this invocation
    dispatched,        \* calls of sub.command in this invocation
    error,             \* the exception that ended the invocation, or "none"
    notified,          \* calls of show_exception_notification in this invocation
    saved,             \* calls of save_episode_numbers in this invocation
    prev,              \* how the previous invocation ended: "none", "ok", "failed"
    cmp,               \* the input and the result of a pure function under check
    traceback          \* where the exception was raised; calls of logging.exception

vars == <<json, remote, pc, feeds, fi, ei, si, original_numbers, fetched,
          yielded, downloaded, dispatched, error, notified, saved, prev, cmp,
          traceback>>

(***************************************************************************)
(* Bounds of the model.                                                    *)
(***************************************************************************)
\* subscriptions in the whole configuration
MaxSubs == 2
\* entries in all the feed documents together
MaxEntries == 2
\* largest series / episode number of the pure comparison checks
GtMaxNumber == 6
\* links of an entry in the checks of the url resolution
MaxLinks == 3

\* An int object has any number of digits: it is its sign and its decimal
\* digits, most significant first and without leading zeros; 0 has none.
RECURSIVE DigitsOf(_)
DigitsOf(n) == IF n = 0 THEN <<>> ELSE Append(DigitsOf(n \div 10), n % 10)

\* the int object of a number
IntValue(n) ==
    [negative |-> n < 0, digits |-> IF n < 0 THEN DigitsOf(0 - n) ELSE DigitsOf(n)]

\* an Optional[int] is an int object, or None
None == [none |-> TRUE]

\* a > b on the digits of two numbers that are not negative
MagnitudeGreater(a, b) ==
    \/ Len(a) > Len(b)
    \/ /\ Len(a) = Len(b)
       /\ \E i \in 1..Len(a) : a[i] > b[i] /\ \A j \in 1..(i - 1) : a[j] = b[j]

\* x > y on int objects
IntGreater(x, y) ==
    IF x.negative # y.negative THEN y.negative
    ELSE IF x.negative THEN MagnitudeGreater(y.digits, x.digits)
    ELSE MagnitudeGreater(x.digits, y.digits)

\* a key that is missing from the tree where a string or a list is expected
Absent == "absent"

BSeq(S, n) == UNION {[1..k -> S] : k \in 0..n}

RECURSIVE SumLen(_, _)
SumLen(seqs, n) == IF n = 0 THEN 0 ELSE Len(seqs[n]) + SumLen(seqs, n - 1)

(***************************************************************************)
(* EpisodeNumber                                                           *)
(***************************************************************************)
EpisodeNumber(series, episode) == [series |-> series, episode |-> episode]

\* A str is a sequence of characters and a character is its Unicode code
\* point. Digit(d) is the ASCII digit of d.
Digit(d) == 48 + d

\* a value of match.groupdict(): the text a group captured, or None for a
\* group that took no part in the match
Captured(text) == [str |-> text]
NotCaptured == [none |-> TRUE]

\* int() raising an exception
Raising(exception) == [raised |-> exception]

\* the characters int() strips from both ends of a text
Whitespace ==
    {9, 10, 11, 12, 13, 32, 133, 160, 5760} \cup 8192..8202
    \cup {8232, 8233, 8239, 8287, 12288}

\* the digit zero of every script's decimal digits (Unicode 14); the other
\* nine digits of a script follow its zero in ascending order
DecimalZeros ==
    {48, 1632, 1776, 1984, 2406, 2534, 2662, 2790, 2918, 3046, 3174, 3302,
     3430, 3558, 3664, 3792, 3872, 4160, 4240, 6112, 6160, 6470, 6608, 6784,
     6800, 6992, 7088, 7232, 7248, 42528, 43216, 43264, 43472, 43504, 43600,
     44016, 65296, 66720, 68912, 69734, 69872, 69942, 70096, 70384, 70736,
     70864, 71248, 71360, 71472, 71904, 72016, 72784, 73040, 73120, 92768,
     92864, 93008, 120782, 120792, 120802, 120812, 120822, 123200, 123632,
     125264, 130032}
IsDecimal(c) == c \in 48..57 \/ \E z \in DecimalZeros : c \in z..(z + 9)
DecimalDigit(c) ==
    IF c \in 48..57 THEN c - 48
    ELSE c - (CHOOSE z \in DecimalZeros : c \in z..(z + 9))

\* text.strip() as int() does it
Strip(text) ==
    IF \A i \in 1..Len(text) : text[i] \in Whitespace THEN <<>>
    ELSE LET first == CHOOSE i \in 1..Len(text) :
                          /\ text[i] \notin Whitespace
                          /\ \A j \in 1..(i - 1) : text[j] \in Whitespace
             last == CHOOSE i \in 1..Len(text) :
                         /\ text[i] \notin Whitespace
                         /\ \A j \in (i + 1)..Len(text) : text[j] \in Whitespace
         IN  SubSeq(text, first, last)

\* the digits of a decimal literal: decimal digits with single underscores
\* (95) between them
IsDigitPart(text) ==
    /\ text # <<>>
    /\ IsDecimal(text[1]) /\ IsDecimal(text[Len(text)])
    /\ \A i \in 1..Len(text) : IsDecimal(text[i]) \/ text[i] = 95
    /\ \A i \in 1..(Len(text) - 1) : ~(text[i] = 95 /\ text[i + 1] = 95)

\* the int object with this sign and these digits, which may begin with
\* zeros
Integer(negative, digits) ==
    IF \A i \in 1..Len(digits) : digits[i] = 0
    THEN [negative |-> FALSE, digits |-> <<>>]
    ELSE LET first == CHOOSE i \in 1..Len(digits) :
                          digits[i] # 0 /\ \A j \in 1..(i - 1) : digits[j] = 0
         IN  [negative |-> negative, digits |-> SubSeq(digits, first, Len(digits))]

\* sys.int_info.default_max_str_digits: the most digits int() converts
MaxStrDigits == 4300

\* int() of a value of the groupdict. None raises TypeError. A text is
\* stripped of whitespace and is then an optional sign (43 is +, 45 is -)
\* and a digit part of at most MaxStrDigits digits, the leading zeros
\* counted and the underscores not; any other text, the empty one
\* included, raises ValueError
int(value) ==
    IF "str" \notin DOMAIN value THEN Raising("TypeError")
    ELSE LET text == Strip(value.str)
             signed == text # <<>> /\ text[1] \in {43, 45}
             part == IF signed THEN Tail(text) ELSE text
             characters == SelectSeq(part, IsDecimal)
             digits == [i \in 1..Len(characters) |-> DecimalDigit(characters[i])]
         IN  IF ~IsDigitPart(part) THEN Raising("ValueError")
             ELSE IF Len(digits) > MaxStrDigits THEN Raising("ValueError")
             ELSE Integer(signed /\ text[1] = 45, digits)

\* a call has raised instead of returning
Raises(result) == "raised" \in DOMAIN result

\* EpisodeNumber.from_regex_match: groups is match.groupdict(); the number,
\* or the exception that int() or groups['episode'] raises, the series being
\* converted first
from_regex_match(groups) ==
    LET series == IF "series" \in DOMAIN groups THEN int(groups.series) ELSE None
        episode == IF "episode" \in DOMAIN groups THEN int(groups.episode)
                   ELSE Raising("KeyError")
    IN  IF Raises(series) THEN series
        ELSE IF Raises(episode) THEN episode
        ELSE EpisodeNumber(series, episode)

\* a comparison that wants the series not lower and the episode higher
EpisodeNumber_gt_Componentwise(self, other) ==
    IF self.episode = None THEN FALSE
    ELSE IF other.episode = None THEN TRUE
    ELSE IF self.series # None /\ other.series # None
            /\ IntGreater(other.series, self.series)
         THEN FALSE
    ELSE IntGreater(self.episode, other.episode)

\* a comparison that ignores the series number
EpisodeNumber_gt_NoSeries(self, other) ==
    IF self.episode = None THEN FALSE
    ELSE IF other.episode = None THEN TRUE
    ELSE IntGreater(self.episode, other.episode)

\* a comparison that is not strict on the episode
EpisodeNumber_gt_NotStrict(self, other) ==
    IF self.episode = None THEN FALSE
    ELSE IF other.episode = None THEN TRUE
    ELSE IF self.series # None /\ other.series # None /\ self.series # other.series
         THEN IntGreater(self.series, other.series)
    ELSE ~IntGreater(other.episode, self.episode)

\* EpisodeNumber.__gt__
EpisodeNumber_gt(self, other) ==
    IF self.episode = None THEN FALSE
    ELSE IF other.episode = None THEN TRUE
    ELSE IF self.series # None /\ other.series # None /\ self.series # other.series
         THEN IntGreater(self.series, other.series)
    ELSE IntGreater(self.episode, other.episode)

\* EpisodeNumber.__eq__
EpisodeNumber_eq(self, other) ==
    self.series = other.series /\ self.episode = other.episode

(***************************************************************************)
(* Inputs: stored configurations and feed documents.                       *)
(*                                                                         *)
(* A pattern is one of five kinds, N standing for [-+_\s\d]:               *)
(*   "SE"    show S(?P<series>N{0,})E(?P<episode>N{0,})                     *)
(*   "E"     show SN{0,}E(?P<episode>N{0,})                                 *)
(*   "EOPT"  show SN{0,}E(?P<episode>N+)?                                   *)
(*   "NOEP"  show          compiles, declares no episode group              *)
(*   "BAD"   a text that does not compile                                   *)
(* A title is 'show S' or 'other S', then its series text, 'E', its episode *)
(* text and the rest. The series and episode texts are made of signs,       *)
(* underscores, whitespace and decimal digits, and the rest does not begin  *)
(* with one of these, so that the valid patterns capture the texts whole.   *)
(***************************************************************************)
ValidPatterns == {"SE", "E", "EOPT"}
Patterns == ValidPatterns \cup {"NOEP", "BAD"}

\* one entry of "subscriptions" in the configuration tree; a key that is
\* missing from the tree is None here
SubDict(pattern, series_number, episode_number) ==
    [pattern |-> pattern, series_number |-> series_number,
     episode_number |-> episode_number, directory |-> Absent, command |-> Absent]

\* a subscription that overrides the directory or the command
SubDictWith(directory, command) ==
    [SubDict("SE", None, None) EXCEPT !.directory = directory, !.command = command]

\* an entry title: a release of the show with the texts of its numbers, or
\* some other text that none of the valid patterns match
\* rest is the text after the numbers
Title(show, series, episode) ==
    [show |-> show, series |-> series, episode |-> episode, rest |-> <<>>]
\* 'show S1E+2' going on after the numbers
TitleWith(rest) == [Title("show", <<Digit(1)>>, <<43, Digit(2)>>) EXCEPT !.rest = rest]
\* 'show S1E': a release whose title has no episode text
TitleNoEpisode == Title("show", <<Digit(1)>>, <<>>)
OtherTitle == Title("other", <<Digit(0)>>, <<Digit(0)>>)

\* single-feed configurations: the full range of patterns and numbers
SubDicts ==
    {SubDict(p, None, None) : p \in {"SE", "E", "NOEP", "BAD"}}
    \cup {SubDict(p, None, IntValue(1)) : p \in {"SE", "E"}}
    \cup {SubDict(p, IntValue(1), IntValue(1)) : p \in {"SE", "E"}}
Titles ==
    {OtherTitle}
    \cup {Title("show", <<Digit(se[1])>>, <<Digit(se[2])>>) :
              se \in {<<1, 1>>, <<1, 2>>, <<2, 2>>}}

\* two-feed configurations: a reduced range
PlainSubDicts ==
    {SubDict(p, None, None) : p \in {"SE", "EOPT", "NOEP", "BAD"}}
    \cup {SubDict("E", IntValue(1), IntValue(1))}
PlainTitles == {OtherTitle, Title("show", <<Digit(1)>>, <<Digit(2)>>), TitleNoEpisode}

\* a feed_dict that leaves the download options out: feed_dict.get(key, True)
\* reads a missing key as True, and so it is True here
FeedDict(subscriptions) ==
    [subscriptions |-> subscriptions, prefer_torrent_url |-> TRUE,
     hide_torrent_filename |-> TRUE]

\* a feed_dict that sets the two download options
FeedDictWith(subscriptions, prefer_torrent_url, hide_torrent_filename) ==
    [subscriptions |-> subscriptions, prefer_torrent_url |-> prefer_torrent_url,
     hide_torrent_filename |-> hide_torrent_filename]

\* a tree that violates the schema: jsonschema.validate reads nothing else
InvalidTree ==
    [valid |-> FALSE, feeds |-> <<>>, default_directory |-> Absent,
     default_command |-> Absent, replace_windows_forbidden_characters |-> FALSE]

\* a tree that leaves the engine's defaults out.
\* replace_windows_forbidden_characters is the key of the tree, or WINDOWS
\* when the key is missing: here a platform that is not Windows
Tree(feed_dicts) ==
    [valid |-> TRUE, feeds |-> feed_dicts, default_directory |-> Absent,
     default_command |-> Absent, replace_windows_forbidden_characters |-> FALSE]

OneFeedTrees == {Tree(<<FeedDict(ss)>>) : ss \in BSeq(SubDicts, MaxSubs)}

TwoFeedTrees ==
    {Tree(<<FeedDict(ab[1]), FeedDict(ab[2])>>) :
        ab \in {x \in BSeq(PlainSubDicts, MaxSubs) \X BSeq(PlainSubDicts, MaxSubs) :
                    Len(x[1]) + Len(x[2]) <= MaxSubs}}

\* single-feed configurations that set the download options, the engine's
\* defaults and the subscriptions' overrides
OptionSubDicts ==
    {SubDictWith(Absent, Absent), SubDictWith("dir1", Absent),
     SubDictWith(Absent, "cmd1")}
\* prefer_torrent_url, hide_torrent_filename and the tree's
\* replace_windows_forbidden_characters
FeedOptions ==
    {<<TRUE, TRUE, FALSE>>, <<FALSE, TRUE, FALSE>>, <<FALSE, FALSE, FALSE>>,
     <<FALSE, FALSE, TRUE>>}
OptionTrees ==
    {[Tree(<<FeedDictWith(ss, o[1], o[2])>>) EXCEPT
          !.default_directory = dc[1], !.default_command = dc[2],
          !.replace_windows_forbidden_characters = o[3]] :
        ss \in BSeq(OptionSubDicts, MaxSubs), o \in FeedOptions,
        dc \in {<<Absent, Absent>>, <<"dir0", "cmd0">>}}
\* 'show S1E+2:x?'
OptionTitles == {TitleWith(<<58, 120, 63>>)}

\* the tree sets one of these options
SetsOptions(tree) ==
    \/ tree.replace_windows_forbidden_characters
    \/ tree.default_directory # Absent
    \/ tree.default_command # Absent
    \/ \E f \in 1..Len(tree.feeds) :
        \/ ~tree.feeds[f].prefer_torrent_url
        \/ ~tree.feeds[f].hide_torrent_filename
        \/ \E i \in 1..Len(tree.feeds[f].subscriptions) :
            \/ tree.feeds[f].subscriptions[i].directory # Absent
            \/ tree.feeds[f].subscriptions[i].command # Absent

Trees == {InvalidTree} \cup OneFeedTrees \cup TwoFeedTrees \cup OptionTrees

\* the documents a feed's url may serve, given what the other urls serve
EntriesKnown(rem) ==
    SumLen([f \in 1..Len(rem) |-> IF rem[f].known THEN rem[f].entries ELSE <<>>],
           Len(rem))
Documents(rem) ==
    BSeq(IF SetsOptions(json) THEN OptionTitles
         ELSE IF Len(rem) = 1 THEN Titles ELSE PlainTitles,
         MaxEntries - EntriesKnown(rem))

Unobserved == [known |-> FALSE, entries |-> <<>>]

(***************************************************************************)
(* Subscription, Feed and TorrentRSS construction                          *)
(***************************************************************************)
\* re.compile(pattern) raising re.error
CompileFails(pattern) == pattern = "BAD"

\* 'episode' in self.regex.groupindex
HasEpisodeGroup(pattern) == pattern \in {"SE", "E", "EOPT"}

\* a constructor that validates nothing
Subscription_init_error_Unchecked(sub_dict) == "none"

\* Subscription.__init__: the error it raises, or "none"
Subscription_init_error(sub_dict) ==
    IF CompileFails(sub_dict.pattern) THEN "ConfigError"
    ELSE IF ~HasEpisodeGroup(sub_dict.pattern) THEN "ConfigError"
    ELSE "none"

\* Command.__init__: arguments is the list of the tree, or None
Command(arguments) == [arguments |-> arguments]

\* TorrentRSS.__init__: default_directory and default_command
Config(tree) ==
    [default_directory |->
         IF tree.default_directory = Absent THEN "TEMPORARY_DIRECTORY"
         ELSE tree.default_directory,
     default_command |-> Command(tree.default_command),
     replace_windows_forbidden_characters |-> tree.replace_windows_forbidden_characters]

\* a subscription that never looks at its own directory
SubDirectory_Default(config, sub_dict) == config.default_directory

\* Subscription.__init__: self.directory
SubDirectory(config, sub_dict) ==
    IF sub_dict.directory # Absent THEN sub_dict.directory
    ELSE config.default_directory

\* Subscription.__init__: self.command
SubCommand(config, sub_dict) ==
    IF sub_dict.command # Absent THEN Command(sub_dict.command)
    ELSE config.default_command

\* Subscription.__init__: the object built
Subscription_init(config, sub_dict) ==
    [pattern |-> sub_dict.pattern,
     number |-> EpisodeNumber(sub_dict.series_number, sub_dict.episode_number),
     directory |-> SubDirectory(config, sub_dict),
     command |-> SubCommand(config, sub_dict)]

\* Feed.__init__: the options and the subscriptions dict, in the order of
\* the tree
Feed_init(config, feed_dict) ==
    [config |-> config,
     prefer_torrent_url |-> feed_dict.prefer_torrent_url,
     hide_torrent_filename |-> feed_dict.hide_torrent_filename,
     subscriptions |->
        [s \in 1..Len(feed_dict.subscriptions) |->
            Subscription_init(config, feed_dict.subscriptions[s])]]

\* the first error raised while TorrentRSS.__init__ runs, or "none"
TorrentRSS_init_error(tree) ==
    IF ~tree.valid THEN "ValidationError"
    ELSE IF \E f \in 1..Len(tree.feeds) :
               \E s \in 1..Len(tree.feeds[f].subscriptions) :
                   Subscription_init_error(tree.feeds[f].subscriptions[s]) # "none"
         THEN "ConfigError"
    ELSE "none"

(***************************************************************************)
(* Matching                                                                *)
(***************************************************************************)
\* sub.regex.search(title): whether it matched, and match.groupdict(), which
\* is empty for a pattern without named groups. A pattern that does not
\* compile has no regex to search with
regex_search(pattern, title) ==
    IF title.show # "show" \/ pattern = "BAD"
    THEN [matched |-> FALSE, groups |-> [episode |-> NotCaptured]]
    ELSE IF pattern = "NOEP"
    THEN [matched |-> TRUE, groups |-> <<>>]
    ELSE IF pattern = "SE"
    THEN [matched |-> TRUE,
          groups |-> [series |-> Captured(title.series),
                      episode |-> Captured(title.episode)]]
    ELSE IF pattern = "EOPT" /\ title.episode = <<>>
    THEN [matched |-> TRUE, groups |-> [episode |-> NotCaptured]]
    ELSE [matched |-> TRUE, groups |-> [episode |-> Captured(title.episode)]]

\* a comparison against the number the subscription has now
ComparedNumber_Live(original, live) == live

\* the number an entry's number is compared against in matching_subs
ComparedNumber(original, live) == original

\* a snapshot lookup that takes the first subscription's number for all
OriginalNumber_First(s) == original_numbers[1]

\* original_numbers[sub]
OriginalNumber(s) == original_numbers[s]

\* a generator that fetches whatever the subscriptions are
NeedsFetch_Always(subscriptions) == TRUE

\* matching_subs: "if not self.subscriptions: return"
NeedsFetch(subscriptions) == Len(subscriptions) > 0

\* a scan that takes the entries in listed order
CurEntry_Forward == Len(remote[fi].entries) - ei + 1

\* the (sub, entry) pair the scan of matching_subs is at: ei counts down
\* over reversed(rss['entries'])
AtPair == pc = "scan" /\ ei >= 1
CurEntry == ei
CurTitle == remote[fi].entries[CurEntry]
CurSub == feeds[fi].subscriptions[si]
CurMatch == regex_search(CurSub.pattern, CurTitle)
CurNumber == from_regex_match(CurMatch.groups)
\* a scan that passes over a number the subscription already has
IsGenuine_NewNumber ==
    /\ CurMatch.matched
    /\ ~Raises(CurNumber)
    /\ EpisodeNumber_gt(CurNumber, ComparedNumber(OriginalNumber(si), CurSub.number))
    /\ ~EpisodeNumber_eq(CurNumber, CurSub.number)

\* a scan that yields every entry whose title matches
IsGenuine_AnyMatch == CurMatch.matched /\ ~Raises(CurNumber)

\* "if match:" and "if number > original_numbers[sub]:"
IsGenuine ==
    /\ CurMatch.matched
    /\ ~Raises(CurNumber)
    /\ EpisodeNumber_gt(CurNumber, ComparedNumber(OriginalNumber(si), CurSub.number))

\* the scan position after the pair (ei, si): subscriptions innermost,
\* entries from the last listed to the first
NextEi == IF si < Len(feeds[fi].subscriptions) THEN ei ELSE ei - 1
NextSi == IF si < Len(feeds[fi].subscriptions) THEN si + 1 ELSE 1

Yield(f, s, e, number) == [feed |-> f, sub |-> s, entry |-> e, number |-> number]

(***************************************************************************)
(* save_episode_numbers                                                    *)
(***************************************************************************)
\* a save that writes both fields whatever their value
SavedSubDict_Unconditional(sub_dict, number) ==
    [sub_dict EXCEPT !.series_number = number.series,
                     !.episode_number = number.episode]

\* the sub_dict after the two conditional assignments
SavedSubDict(sub_dict, number) ==
    [sub_dict EXCEPT
        !.series_number = IF number.series # None THEN number.series ELSE @,
        !.episode_number = IF number.episode # None THEN number.episode ELSE @]

save_episode_numbers(tree, fds) ==
    [tree EXCEPT !.feeds =
        [f \in 1..Len(tree.feeds) |->
            [tree.feeds[f] EXCEPT !.subscriptions =
                [s \in 1..Len(tree.feeds[f].subscriptions) |->
                    SavedSubDict(tree.feeds[f].subscriptions[s],
                                 fds[f].subscriptions[s].number)]]]]

NoComparison == [stage |-> "none"]

\* no exception has been raised and none has been logged
NoTraceback == [raised_in |-> "none", logged |-> 0]

(***************************************************************************)
(* The state machine                                                       *)
(***************************************************************************)
Init ==
    /\ json \in Trees
    /\ remote = [f \in 1..Len(json.feeds) |-> Unobserved]
    /\ pc = "start"
    /\ feeds = <<>>
    /\ fi = 0 /\ ei = 0 /\ si = 0
    /\ original_numbers = <<>>
    /\ fetched = [f \in 1..Len(json.feeds) |-> 0]
    /\ yielded = <<>> /\ downloaded = <<>> /\ dispatched = <<>>
    /\ error = "none" /\ notified = 0 /\ saved = 0
    /\ prev = "none"
    /\ cmp = NoComparison
    /\ traceback = NoTraceback

\* an exception raised in the function named propagates to the except
\* clause of main
Raise(kind, function) ==
    /\ error' = kind
    /\ traceback' = [traceback EXCEPT !.raised_in = function]
    /\ pc' = "except"

\* main: config = TorrentRSS()
Construct ==
    /\ pc = "start"
    /\ IF TorrentRSS_init_error(json) = "none"
       THEN /\ feeds' = [f \in 1..Len(json.feeds) |->
                            Feed_init(Config(json), json.feeds[f])]
            /\ pc' = "feeds"
            /\ fi' = 1
            /\ UNCHANGED <<error, traceback>>
       ELSE /\ Raise(TorrentRSS_init_error(json), "TorrentRSS.__init__")
            /\ UNCHANGED <<feeds, fi>>
    /\ UNCHANGED <<json, remote, ei, si, original_numbers, fetched, yielded,
                   downloaded, dispatched, notified, saved, prev, cmp>>

\* matching_subs of a feed without subscriptions returns at once
MatchingSubsNoSubs ==
    /\ pc = "feeds" /\ fi <= Len(feeds)
    /\ ~NeedsFetch(feeds[fi].subscriptions)
    /\ fi' = fi + 1
    /\ UNCHANGED <<json, remote, pc, feeds, ei, si, original_numbers, fetched,
                   yielded, downloaded, dispatched, error, notified, saved, prev, cmp,
                   traceback>>

\* matching_subs: fetch() returns the document; the numbers are snapshotted
FetchOk ==
    /\ pc = "feeds" /\ fi <= Len(feeds)
    /\ NeedsFetch(feeds[fi].subscriptions)
    /\ \E doc \in (IF remote[fi].known THEN {remote[fi].entries} ELSE Documents(remote)) :
        /\ remote' = [remote EXCEPT ![fi] = [known |-> TRUE, entries |-> doc]]
        /\ ei' = Len(doc)
    /\ fetched' = [fetched EXCEPT ![fi] = @ + 1]
    /\ original_numbers' =
           [s \in 1..Len(feeds[fi].subscriptions) |-> feeds[fi].subscriptions[s].number]
    /\ si' = 1
    /\ pc' = "scan"
    /\ UNCHANGED <<json, feeds, fi, yielded, downloaded, dispatched, error,
                   notified, saved, prev, cmp,
                   traceback>>

\* a generator that looks at the bozo flag only after the scan
FetchBozo_Late ==
    /\ pc = "scan" /\ ei = 0
    /\ Raise("FeedError", "fetch")
    /\ UNCHANGED <<json, remote, feeds, fi, ei, si, original_numbers, fetched,
                   yielded, downloaded, dispatched, notified, saved, prev, cmp>>

\* matching_subs: fetch() finds the document malformed and raises FeedError
FetchBozo ==
    /\ pc = "feeds" /\ fi <= Len(feeds)
    /\ NeedsFetch(feeds[fi].subscriptions)
    /\ fetched' = [fetched EXCEPT ![fi] = @ + 1]
    /\ Raise("FeedError", "fetch")
    /\ UNCHANGED <<json, remote, feeds, fi, ei, si, original_numbers, yielded,
                   downloaded, dispatched, notified, saved, prev, cmp>>

\* a generator that yields a match without assigning its number
MatchYield_KeepsNumber ==
    /\ AtPair /\ IsGenuine
    /\ yielded' = Append(yielded, Yield(fi, si, CurEntry, CurNumber))
    /\ ei' = NextEi /\ si' = NextSi
    /\ pc' = "download"
    /\ UNCHANGED <<json, remote, feeds, fi, original_numbers, fetched, downloaded,
                   dispatched, error, notified, saved, prev, cmp, traceback>>

\* matching_subs: one (entry, sub) pair is a genuine match and is yielded
MatchYield ==
    /\ AtPair /\ IsGenuine
    /\ feeds' = [feeds EXCEPT ![fi].subscriptions[si].number = CurNumber]
    /\ yielded' = Append(yielded, Yield(fi, si, CurEntry, CurNumber))
    /\ ei' = NextEi /\ si' = NextSi
    /\ pc' = "download"
    /\ UNCHANGED <<json, remote, fi, original_numbers, fetched, downloaded,
                   dispatched, error, notified, saved, prev, cmp,
                   traceback>>

\* matching_subs: the title matches and from_regex_match raises
MatchRaises ==
    /\ AtPair
    /\ CurMatch.matched /\ Raises(CurNumber)
    /\ Raise(CurNumber.raised, "from_regex_match")
    /\ UNCHANGED <<json, remote, feeds, fi, ei, si, original_numbers, fetched,
                   yielded, downloaded, dispatched, notified, saved, prev, cmp>>

\* matching_subs: one (entry, sub) pair is no match and is skipped
MatchSkip ==
    /\ AtPair /\ ~IsGenuine
    /\ ~(CurMatch.matched /\ Raises(CurNumber))
    /\ ei' = NextEi /\ si' = NextSi
    /\ UNCHANGED <<json, remote, pc, feeds, fi, original_numbers, fetched, yielded,
                   downloaded, dispatched, error, notified, saved, prev, cmp,
                   traceback>>

\* matching_subs is exhausted: check_feeds goes on to the next feed
MatchingSubsEnd ==
    /\ pc = "scan" /\ ei = 0
    /\ fi' = fi + 1
    /\ pc' = "feeds"
    /\ UNCHANGED <<json, remote, feeds, ei, si, original_numbers, fetched, yielded,
                   downloaded, dispatched, error, notified, saved, prev, cmp,
                   traceback>>

LastYield == yielded[Len(yielded)]

\* the url torrent_url_for_entry returns for entry e of feed f (the links
\* of an entry are drawn in SpecUrl, not here)
EntryUrl(f, e) == [kind |-> "url", feed |-> f, entry |-> e]

\* the characters of the pattern [\\/:\*\?"<>\|], in its order
ForbiddenCharacters == {92, 47, 58, 42, 63, 34, 60, 62, 124}

\* re.sub(pattern=r'[\\/:\*\?"<>\|]', repl='_', string=text); 95 is _
ReplaceIn(text) ==
    [i \in 1..Len(text) |-> IF text[i] \in ForbiddenCharacters THEN 95 ELSE text[i]]

\* the replacement in a title: 'show S' and 'E' hold none of the characters
ReplaceForbidden(title) ==
    [title EXCEPT !.series = ReplaceIn(@), !.episode = ReplaceIn(@),
                  !.rest = ReplaceIn(@)]

\* download_entry_torrent_file: Path(directory, title + '.torrent'), where
\* title is the sha256 of the response or the entry's title
TorrentPath(feed, f, e, directory) ==
    [kind |-> "path", directory |-> directory,
     name |-> IF feed.hide_torrent_filename THEN [sha256_of |-> EntryUrl(f, e)]
              ELSE IF feed.config.replace_windows_forbidden_characters
              THEN [title |-> ReplaceForbidden(remote[f].entries[e])]
              ELSE [title |-> remote[f].entries[e]]]

\* a download that always fetches the torrent file
PrefersUrl_Never(feed) == FALSE

\* download_entry: "if self.prefer_torrent_url"
PrefersUrl(feed) == feed.prefer_torrent_url

\* one call of download_entry: what it was given, the requests.get calls and
\* the files it wrote, and what it returned or raised
DownloadCall(y, directory, requests, written, result) ==
    [feed |-> y.feed, sub |-> y.sub, entry |-> y.entry, directory |-> directory,
     requests |-> requests, written |-> written, result |-> result]

\* the steps of download_entry that can raise
DownloadSteps(feed) ==
    IF PrefersUrl(feed) THEN {"torrent_url_for_entry"}
    ELSE {"torrent_url_for_entry", "requests.get", "write_bytes"}

\* one call of sub.command: the Command object, its argument and how it
\* launches
CommandCall(y, command, path_or_url) ==
    [feed |-> y.feed, sub |-> y.sub, entry |-> y.entry, command |-> command,
     path_or_url |-> path_or_url,
     launched_with |-> IF command.arguments # Absent THEN "Popen" ELSE "startfile"]

LastSub == feeds[LastYield.feed].subscriptions[LastYield.sub]
LastDownload == downloaded[Len(downloaded)]

\* check_feeds: feed.download_entry(entry, sub.directory) returns
DownloadOk ==
    /\ pc = "download"
    /\ downloaded' = Append(downloaded,
           IF PrefersUrl(feeds[fi])
           THEN DownloadCall(LastYield, LastSub.directory, 0, 0,
                             EntryUrl(LastYield.feed, LastYield.entry))
           ELSE DownloadCall(LastYield, LastSub.directory, 1, 1,
                             TorrentPath(feeds[fi], LastYield.feed, LastYield.entry,
                                         LastSub.directory)))
    /\ pc' = "dispatch"
    /\ UNCHANGED <<json, remote, feeds, fi, ei, si, original_numbers, fetched,
                   yielded, dispatched, error, notified, saved, prev, cmp,
                   traceback>>

\* check_feeds: feed.download_entry raises FeedError, at one of its steps
DownloadFails ==
    /\ pc = "download"
    /\ \E step \in DownloadSteps(feeds[fi]) :
        downloaded' = Append(downloaded,
            DownloadCall(LastYield, LastSub.directory,
                         IF step = "torrent_url_for_entry" THEN 0 ELSE 1, 0,
                         [kind |-> "raised", step |-> step]))
    /\ Raise("FeedError", "download_entry")
    /\ UNCHANGED <<json, remote, feeds, fi, ei, si, original_numbers, fetched,
                   yielded, dispatched, notified, saved, prev, cmp>>

\* check_feeds: sub.command(path_or_url) launches the program
DispatchOk ==
    /\ pc = "dispatch"
    /\ dispatched' = Append(dispatched,
           CommandCall(LastYield, LastSub.command, LastDownload.result))
    /\ pc' = "scan"
    /\ UNCHANGED <<json, remote, feeds, fi, ei, si, original_numbers, fetched,
                   yielded, downloaded, error, notified, saved, prev, cmp,
                   traceback>>

\* check_feeds: sub.command(path_or_url) fails to launch (Popen raises OSError)
DispatchFails ==
    /\ pc = "dispatch"
    /\ dispatched' = Append(dispatched,
           CommandCall(LastYield, LastSub.command, LastDownload.result))
    /\ Raise("OSError", "Command.__call__")
    /\ UNCHANGED <<json, remote, feeds, fi, ei, si, original_numbers, fetched,
                   yielded, downloaded, notified, saved, prev, cmp>>

\* a save at the end of every feed's check cycle
Save_PerFeed ==
    /\ pc = "scan" /\ ei = 0
    /\ json' = save_episode_numbers(json, feeds)
    /\ saved' = saved + 1
    /\ fi' = fi + 1
    /\ pc' = IF fi = Len(feeds) THEN "exit" ELSE "feeds"
    /\ UNCHANGED <<remote, feeds, ei, si, original_numbers, fetched, yielded,
                   downloaded, dispatched, error, notified, prev, cmp,
                   traceback>>

\* main: check_feeds has returned; config.save_episode_numbers()
Save ==
    /\ pc = "feeds" /\ fi > Len(feeds)
    /\ json' = save_episode_numbers(json, feeds)
    /\ saved' = saved + 1
    /\ pc' = "exit"
    /\ UNCHANGED <<remote, feeds, fi, ei, si, original_numbers, fetched, yielded,
                   downloaded, dispatched, error, notified, prev, cmp,
                   traceback>>

\* main: config.save_episode_numbers() cannot open the file for writing
SaveFails ==
    /\ pc = "feeds" /\ fi > Len(feeds)
    /\ saved' = saved + 1
    /\ Raise("PermissionError", "save_episode_numbers")
    /\ UNCHANGED <<json, remote, feeds, fi, ei, si, original_numbers, fetched,
                   yielded, downloaded, dispatched, notified, prev, cmp>>

\* an except clause that also saves the numbers reached so far
MainExcept_Saves ==
    /\ pc = "except"
    /\ json' = IF feeds = <<>> THEN json ELSE save_episode_numbers(json, feeds)
    /\ saved' = saved + 1
    /\ traceback' = [traceback EXCEPT !.logged = @ + 1]
    /\ notified' = notified + 1
    /\ pc' = "exit"
    /\ UNCHANGED <<remote, feeds, fi, ei, si, original_numbers, fetched, yielded,
                   downloaded, dispatched, error, prev, cmp>>

\* an except clause that neither logs nor notifies
MainExcept_Silent ==
    /\ pc = "except"
    /\ pc' = "exit"
    /\ UNCHANGED <<json, remote, feeds, fi, ei, si, original_numbers, fetched,
                   yielded, downloaded, dispatched, error, notified, saved, prev,
                   cmp, traceback>>

\* main: except Exception: log, notify, re-raise
MainExcept ==
    /\ pc = "except"
    /\ traceback' = [traceback EXCEPT !.logged = @ + 1]
    /\ notified' = notified + 1
    /\ pc' = "exit"
    /\ UNCHANGED <<json, remote, feeds, fi, ei, si, original_numbers, fetched,
                   yielded, downloaded, dispatched, error, saved, prev, cmp>>

\* the external scheduler invokes the program again: nothing but the stored
\* configuration and the remote documents carries over
Reinvoke ==
    /\ pc = "exit"
    /\ prev' = IF error = "none" THEN "ok" ELSE "failed"
    /\ pc' = "start"
    /\ feeds' = <<>>
    /\ fi' = 0 /\ ei' = 0 /\ si' = 0
    /\ original_numbers' = <<>>
    /\ fetched' = [f \in 1..Len(json.feeds) |-> 0]
    /\ yielded' = <<>> /\ downloaded' = <<>> /\ dispatched' = <<>>
    /\ error' = "none" /\ notified' = 0 /\ saved' = 0
    /\ traceback' = NoTraceback
    /\ UNCHANGED <<json, remote, cmp>>

Next ==
    \/ Construct
    \/ MatchingSubsNoSubs
    \/ FetchOk
    \/ FetchBozo
    \/ MatchYield
    \/ MatchSkip
    \/ MatchRaises
    \/ MatchingSubsEnd
    \/ DownloadOk
    \/ DownloadFails
    \/ DispatchOk
    \/ DispatchFails
    \/ Save
    \/ SaveFails
    \/ MainExcept
    \/ Reinvoke

Spec == Init /\ [][Next]_vars

(***************************************************************************)
(* Comparing EpisodeNumbers: a specification that draws two numbers and    *)
(* applies __gt__ both ways and __eq__ to them.                            *)
(***************************************************************************)
OptionalInts == {None} \cup {IntValue(n) : n \in -1..GtMaxNumber}
EpisodeNumbers == {EpisodeNumber(s, e) : s \in OptionalInts, e \in OptionalInts}

InitGt ==
    /\ json = InvalidTree
    /\ remote = <<>>
    /\ pc = "compare"
    /\ feeds = <<>>
    /\ fi = 0 /\ ei = 0 /\ si = 0
    /\ original_numbers = <<>>
    /\ fetched = <<>>
    /\ yielded = <<>> /\ downloaded = <<>> /\ dispatched = <<>>
    /\ error = "none" /\ notified = 0 /\ saved = 0
    /\ prev = "none"
    /\ cmp \in {[stage |-> "input", a |-> a, b |-> b] : a, b \in EpisodeNumbers}
    /\ traceback = NoTraceback

Compare ==
    /\ pc = "compare"
    /\ cmp.stage = "input"
    /\ cmp' = [stage |-> "done", a |-> cmp.a, b |-> cmp.b,
               gt_ab |-> EpisodeNumber_gt(cmp.a, cmp.b),
               gt_ba |-> EpisodeNumber_gt(cmp.b, cmp.a),
               eq |-> EpisodeNumber_eq(cmp.a, cmp.b)]
    /\ UNCHANGED <<json, remote, pc, feeds, fi, ei, si, original_numbers, fetched,
                   yielded, downloaded, dispatched, error, notified, saved, prev,
                   traceback>>

NextGt == Compare

SpecGt == InitGt /\ [][NextGt]_vars

(***************************************************************************)
(* Resolving an entry's url: a specification that draws an entry with its  *)
(* links and applies torrent_url_for_entry to it.                          *)
(***************************************************************************)
TORRENT_MIMETYPE == "application/x-bittorrent"

\* one element of rss_entry['links']; a link without a type attribute has
\* no 'type' key
Link(type, href) == [type |-> type, href |-> href]
Links == {Link(t, h) : t \in {TORRENT_MIMETYPE, "text/html", Absent},
                       h \in {"href1", "href2"}}
RssEntries ==
    {[links |-> ls, link |-> l] : ls \in BSeq(Links, MaxLinks), l \in {"href1", "href3"}}

Returned(value) == [kind |-> "returned", value |-> value]
Raised(exception) == [kind |-> "raised", value |-> exception]

\* a resolution that always takes the entry's primary link
torrent_url_for_entry_Primary(rss_entry) == Returned(rss_entry.link)

\* torrent_url_for_entry: the loop over rss_entry['links'], from link i on
RECURSIVE ScanLinks(_, _)
ScanLinks(rss_entry, i) ==
    IF i > Len(rss_entry.links) THEN Returned(rss_entry.link)
    ELSE IF rss_entry.links[i].type = Absent THEN Raised("KeyError")
    ELSE IF rss_entry.links[i].type = TORRENT_MIMETYPE
         THEN Returned(rss_entry.links[i].href)
    ELSE ScanLinks(rss_entry, i + 1)

torrent_url_for_entry(rss_entry) == ScanLinks(rss_entry, 1)

InitUrl ==
    /\ json = InvalidTree
    /\ remote = <<>>
    /\ pc = "resolve"
    /\ feeds = <<>>
    /\ fi = 0 /\ ei = 0 /\ si = 0
    /\ original_numbers = <<>>
    /\ fetched = <<>>
    /\ yielded = <<>> /\ downloaded = <<>> /\ dispatched = <<>>
    /\ error = "none" /\ notified = 0 /\ saved = 0
    /\ prev = "none"
    /\ cmp \in {[stage |-> "entry", rss_entry |-> e] : e \in RssEntries}
    /\ traceback = NoTraceback

Resolve ==
    /\ pc = "resolve"
    /\ cmp.stage = "entry"
    /\ cmp' = [stage |-> "resolved", rss_entry |-> cmp.rss_entry,
               result |-> torrent_url_for_entry(cmp.rss_entry)]
    /\ UNCHANGED <<json, remote, pc, feeds, fi, ei, si, original_numbers, fetched,
                   yielded, downloaded, dispatched, error, notified, saved, prev,
                   traceback>>

NextUrl == Resolve

SpecUrl == InitUrl /\ [][NextUrl]_vars

(***************************************************************************)
(* Properties                                                              *)
(***************************************************************************)
FeedIds == 1..Len(json.feeds)
SubIds(f) == 1..Len(json.feeds[f].subscriptions)
EntryIds(f) == 1..Len(remote[f].entries)

\* the number the configuration file holds for a subscription
StoredNumber(f, s) ==
    EpisodeNumber(json.feeds[f].subscriptions[s].series_number,
                  json.feeds[f].subscriptions[s].episode_number)

\* the title of entry e matches the pattern of subscription s
TitleMatches(f, s, e) ==
    regex_search(json.feeds[f].subscriptions[s].pattern, remote[f].entries[e]).matched

\* the number extracted from entry e by the pattern of subscription s
ExtractedNumber(f, s, e) ==
    from_regex_match(
        regex_search(json.feeds[f].subscriptions[s].pattern, remote[f].entries[e]).groups)

\* the title of entry e matches and a number is extracted from it
HasNumber(f, s, e) == TitleMatches(f, s, e) /\ ~Raises(ExtractedNumber(f, s, e))

\* how often the pair (subscription s, entry e) of feed f has been yielded
TimesYielded(f, s, e) ==
    Cardinality({i \in 1..Len(yielded) :
        yielded[i].feed = f /\ yielded[i].sub = s /\ yielded[i].entry = e})

\* matching_subs of feed f has run to its end in this invocation, and the
\* configuration file still holds the numbers the invocation started with
CycleDone(f) == pc \in {"feeds", "scan", "download", "dispatch", "except"} /\ fi > f

\* C1: when matching_subs of a feed has run to its end, the entries yielded
\* for a subscription are exactly those whose title matches its pattern and
\* whose number is greater than the number the subscription had at the start
\* of the cycle, each yielded exactly once, whatever the order of the entries
\* in the document.
C1_BaselineRule ==
    \A f \in FeedIds :
        CycleDone(f) =>
            \A s \in SubIds(f) : \A e \in EntryIds(f) :
                TimesYielded(f, s, e) =
                    IF /\ HasNumber(f, s, e)
                       /\ EpisodeNumber_gt(ExtractedNumber(f, s, e), StoredNumber(f, s))
                    THEN 1 ELSE 0

\* two entries listed in ascending order were both yielded for one
\* subscription: the second one scanned has the smaller number
C1_Witness ==
    \E f \in FeedIds :
        /\ CycleDone(f)
        /\ \E i, j \in 1..Len(yielded) :
            /\ i < j
            /\ yielded[i].feed = f /\ yielded[j].feed = f
            /\ yielded[i].sub = yielded[j].sub
            /\ EpisodeNumber_gt(yielded[i].number, yielded[j].number)

\* C2: an invocation that follows a completed one (check cycle and save)
\* over the same documents yields nothing.
C2_Idempotence == prev = "ok" => yielded = <<>>

\* C3: after a completed invocation no entry whose title matches a
\* subscription carries a number greater than the number saved for it.
C3_SavedIsHighest ==
    (pc = "exit" /\ error = "none") =>
        \A f \in FeedIds : \A s \in SubIds(f) : \A e \in EntryIds(f) :
            HasNumber(f, s, e) =>
                ~EpisodeNumber_gt(ExtractedNumber(f, s, e), StoredNumber(f, s))

\* C4: for two EpisodeNumbers a and b, a > b and b > a are never both true,
\* and when a == b neither is true.
C4_GtAsymmetric ==
    cmp.stage = "done" =>
        /\ ~(cmp.gt_ab /\ cmp.gt_ba)
        /\ (cmp.eq => ~cmp.gt_ab /\ ~cmp.gt_ba)

\* two equal numbers with an episode have been compared
C4_Witness ==
    /\ cmp.stage = "done"
    /\ cmp.eq /\ cmp.a.episode # None /\ cmp.a.series # None
    /\ ~cmp.gt_ab /\ ~cmp.gt_ba

\* the number an int object of a few digits stands for
RECURSIVE Magnitude(_)
Magnitude(digits) ==
    IF digits = <<>> THEN 0
    ELSE 10 * Magnitude(SubSeq(digits, 1, Len(digits) - 1)) + digits[Len(digits)]
NumberOf(x) == IF x.negative THEN 0 - Magnitude(x.digits) ELSE Magnitude(x.digits)

\* the four-step rule of the comparison, as the specification words it
GreaterByRule(a, b) ==
    CASE a.episode = None -> FALSE
      [] a.episode # None /\ b.episode = None -> TRUE
      [] a.episode # None /\ b.episode # None
           /\ a.series # None /\ b.series # None /\ a.series # b.series
         -> NumberOf(a.series) > NumberOf(b.series)
      [] OTHER -> NumberOf(a.episode) > NumberOf(b.episode)

\* C5: __gt__ agrees with the four-step rule on every pair; against the
\* baseline (series 1, episode 5), (1, 6) and (2, 1) are greater and (1, 5)
\* is not.
C5_GtFollowsRule ==
    cmp.stage = "done" =>
        /\ cmp.gt_ab = GreaterByRule(cmp.a, cmp.b)
        /\ cmp.gt_ba = GreaterByRule(cmp.b, cmp.a)
        /\ cmp.b = EpisodeNumber(IntValue(1), IntValue(5)) =>
            /\ cmp.a = EpisodeNumber(IntValue(1), IntValue(6)) => cmp.gt_ab
            /\ cmp.a = EpisodeNumber(IntValue(2), IntValue(1)) => cmp.gt_ab
            /\ cmp.a = EpisodeNumber(IntValue(1), IntValue(5)) => ~cmp.gt_ab

\* (2, 1) has been compared against the baseline (1, 5)
C5_Witness ==
    /\ cmp.stage = "done"
    /\ cmp.a = EpisodeNumber(IntValue(2), IntValue(1))
    /\ cmp.b = EpisodeNumber(IntValue(1), IntValue(5))
    /\ cmp.gt_ab /\ ~cmp.gt_ba

\* C6: every assignment to a subscription's number during a matching cycle
\* installs a number that is greater than the number it replaces.
C6_LiveNumberOnlyGrows ==
    [][(pc = "scan" /\ pc' = "download") =>
         EpisodeNumber_gt(feeds'[fi].subscriptions[si].number,
                          feeds[fi].subscriptions[si].number)]_vars

\* every genuine match of feed f has been handed to its command
AllDispatched(f) ==
    \A s \in SubIds(f) : \A e \in EntryIds(f) :
        (/\ HasNumber(f, s, e)
         /\ EpisodeNumber_gt(ExtractedNumber(f, s, e), StoredNumber(f, s)))
        => \E i \in 1..Len(dispatched) :
            dispatched[i].feed = f /\ dispatched[i].sub = s /\ dispatched[i].entry = e

\* C7: when a fetch or a download fails, every other feed is still fetched
\* and its genuine matches are still dispatched in the same invocation.
C7_FailureIsolation ==
    (pc = "exit" /\ error = "FeedError") =>
        \A g \in FeedIds \ {fi} :
            Len(json.feeds[g].subscriptions) > 0 =>
                fetched[g] = 1 /\ AllDispatched(g)

\* C8: when the command of a yielded match fails to launch, the number set
\* for that match is the one the configuration file holds at the end of
\* the invocation.
C8_ConsumedOnDispatchFailure ==
    (pc = "exit" /\ error = "OSError") =>
        /\ StoredNumber(LastYield.feed, LastYield.sub).episode = LastYield.number.episode
        /\ LastYield.number.series # None =>
            StoredNumber(LastYield.feed, LastYield.sub).series = LastYield.number.series

\* check_feeds has called matching_subs of feed f in this invocation
CycleEntered(f) == f < fi \/ (f = fi /\ pc # "feeds")

\* C9: a feed is fetched at most once in an invocation: once when it has a
\* subscription and check_feeds has reached it (every feed, when check_feeds
\* returns), never when it has no subscription, and then it yields nothing.
C9_FetchedOncePerRun ==
    \A f \in FeedIds :
        /\ fetched[f] =
               IF Len(json.feeds[f].subscriptions) > 0 /\ CycleEntered(f) THEN 1 ELSE 0
        /\ Len(json.feeds[f].subscriptions) = 0 =>
               \A i \in 1..Len(yielded) : yielded[i].feed # f

\* an invocation has ended without error on two feeds: the one with a
\* subscription fetched once, the one without never
C9_Witness ==
    /\ pc = "exit" /\ error = "none" /\ saved = 1
    /\ \E f, g \in FeedIds :
        /\ Len(json.feeds[f].subscriptions) > 0 /\ fetched[f] = 1
        /\ Len(json.feeds[g].subscriptions) = 0 /\ fetched[g] = 0

\* the tree violates the schema, or a pattern of it does not compile or has
\* no episode group
FaultyTree ==
    \/ ~json.valid
    \/ \E f \in FeedIds : \E s \in SubIds(f) :
           json.feeds[f].subscriptions[s].pattern \notin ValidPatterns

\* C10: with a faulty configuration the invocation fails while the engine
\* is constructed, with a configuration error, and fetches, downloads and
\* dispatches nothing.
C10_ConfigErrorBeforeIO ==
    FaultyTree =>
        /\ pc \in {"start", "except", "exit"}
        /\ pc # "start" => error \in {"ConfigError", "ValidationError"}
        /\ \A f \in FeedIds : fetched[f] = 0
        /\ yielded = <<>> /\ downloaded = <<>> /\ dispatched = <<>>
        /\ saved = 0

\* the invocation has failed on a faulty subscription of the second feed,
\* the first feed having a valid one
C10_Witness ==
    /\ pc = "exit" /\ error = "ConfigError"
    /\ Len(json.feeds) = 2
    /\ \E s \in SubIds(1) : json.feeds[1].subscriptions[s].pattern \in ValidPatterns
    /\ \E s \in SubIds(2) : json.feeds[2].subscriptions[s].pattern \notin ValidPatterns
    /\ fetched = <<0, 0>>

\* the k-th call of download_entry / sub.command is for the k-th yielded pair
SamePair(call, y) == call.feed = y.feed /\ call.sub = y.sub /\ call.entry = y.entry
InYieldOrder(calls) ==
    /\ Len(calls) <= Len(yielded)
    /\ \A k \in 1..Len(calls) : SamePair(calls[k], yielded[k])

\* C11: the matches of one feed are produced in reverse listed order: of two
\* matches of the same feed, the one yielded first is of an entry listed
\* no earlier than the other's; downloads and dispatches follow the order
\* of the yields, and a match is dispatched before the next one is yielded.
C11_ReverseListedOrder ==
    /\ \A a, b \in 1..Len(yielded) :
        (a < b /\ yielded[a].feed = yielded[b].feed)
            => yielded[a].entry >= yielded[b].entry
    /\ InYieldOrder(downloaded) /\ InYieldOrder(dispatched)
    /\ Len(yielded) <= Len(dispatched) + 1

\* two entries of one feed have matched and both matches are dispatched, the
\* later listed entry first
C11_Witness ==
    /\ Len(dispatched) >= 2
    /\ \E a, b \in 1..Len(dispatched) :
        /\ a < b
        /\ dispatched[a].feed = dispatched[b].feed
        /\ dispatched[a].entry > dispatched[b].entry

\* the directory and the command a subscription is configured to use: its
\* own if the tree gives one, else the engine's default
EffectiveDirectory(f, s) ==
    IF json.feeds[f].subscriptions[s].directory # Absent
    THEN json.feeds[f].subscriptions[s].directory
    ELSE IF json.default_directory # Absent THEN json.default_directory
    ELSE "TEMPORARY_DIRECTORY"
EffectiveArguments(f, s) ==
    IF json.feeds[f].subscriptions[s].command # Absent
    THEN json.feeds[f].subscriptions[s].command
    ELSE json.default_command

\* C12: while no error has occurred, the k-th yielded pair has had at most
\* one call of download_entry, with the subscription's effective directory,
\* and then at most one invocation of the subscription's effective command,
\* with what that download returned; nothing is downloaded or dispatched
\* that was not yielded; and when the invocation ends without an error
\* there are as many downloads and as many dispatches as yields.
C12_OneDownloadOneDispatch ==
    error = "none" =>
        /\ Len(dispatched) <= Len(downloaded) /\ Len(downloaded) <= Len(yielded)
        /\ \A k \in 1..Len(downloaded) :
            /\ SamePair(downloaded[k], yielded[k])
            /\ downloaded[k].directory =
                   EffectiveDirectory(yielded[k].feed, yielded[k].sub)
        /\ \A k \in 1..Len(dispatched) :
            /\ SamePair(dispatched[k], yielded[k])
            /\ dispatched[k].command.arguments =
                   EffectiveArguments(yielded[k].feed, yielded[k].sub)
            /\ dispatched[k].path_or_url = downloaded[k].result
            /\ downloaded[k].result.kind \in {"url", "path"}
        /\ pc = "exit" =>
            /\ Len(downloaded) = Len(yielded)
            /\ Len(dispatched) = Len(yielded)

\* an invocation has ended without an error after dispatching two torrent
\* files, one for a subscription with its own directory and one for a
\* subscription that uses the engine's
C12_Witness ==
    /\ pc = "exit" /\ error = "none"
    /\ json.default_directory = "dir0"
    /\ \E k \in 1..Len(dispatched) :
        /\ dispatched[k].path_or_url.kind = "path"
        /\ dispatched[k].path_or_url.directory = "dir1"
    /\ \E k \in 1..Len(dispatched) :
        /\ dispatched[k].path_or_url.kind = "path"
        /\ dispatched[k].path_or_url.directory = "dir0"
        /\ dispatched[k].command.arguments = "cmd1"

\* pairs yielded in this invocation for subscription s of feed f
YieldsOf(f, s) == {k \in 1..Len(yielded) : yielded[k].feed = f /\ yielded[k].sub = s}

\* tree a with the stored number fields of tree b
WithNumbersOf(a, b) ==
    [a EXCEPT !.feeds =
        [f \in 1..Len(a.feeds) |->
            [a.feeds[f] EXCEPT !.subscriptions =
                [s \in 1..Len(a.feeds[f].subscriptions) |->
                    [a.feeds[f].subscriptions[s] EXCEPT
                        !.series_number = b.feeds[f].subscriptions[s].series_number,
                        !.episode_number = b.feeds[f].subscriptions[s].episode_number]]]]]

\* C13: a step that saves the episode numbers changes nothing of the tree
\* but the series_number and episode_number of subscriptions; a field whose
\* live value is None keeps what was stored (a missing key stays missing),
\* a field whose live value is defined gets that value, and a subscription
\* without a match in this invocation keeps both stored fields.
C13_SaveWritesOnlyDefinedNumbers ==
    [][(json' # json \/ (pc = "feeds" /\ pc' = "exit")) =>
        /\ json' = WithNumbersOf(json, json')
        /\ \A f \in FeedIds : \A s \in SubIds(f) :
            LET old == json.feeds[f].subscriptions[s]
                new == json'.feeds[f].subscriptions[s]
                live == feeds[f].subscriptions[s].number
            IN  /\ new.series_number =
                       IF live.series = None THEN old.series_number ELSE live.series
                /\ new.episode_number =
                       IF live.episode = None THEN old.episode_number ELSE live.episode
                /\ YieldsOf(f, s) = {} => new = old
      ]_vars

\* the numbers have been saved: one subscription has matched, its live
\* series number is None and its stored series number is still there;
\* another has not matched and has a stored number
C13_Witness ==
    /\ pc = "exit" /\ saved = 1 /\ error = "none"
    /\ \E f \in FeedIds : \E s \in SubIds(f) :
        /\ YieldsOf(f, s) # {}
        /\ feeds[f].subscriptions[s].number.series = None
        /\ json.feeds[f].subscriptions[s].series_number # None
        /\ json.feeds[f].subscriptions[s].episode_number =
               feeds[f].subscriptions[s].number.episode
    /\ \E f \in FeedIds : \E s \in SubIds(f) :
        /\ YieldsOf(f, s) = {}
        /\ json.feeds[f].subscriptions[s].episode_number # None

\* C14: the episode numbers are saved at most once in an invocation, and
\* only when check_feeds has returned: every feed's check cycle is over,
\* every yielded match has been downloaded and dispatched, and no error
\* has occurred. The stored tree changes in no other step.
C14_SaveOnceAfterAllFeeds ==
    [][(json' # json \/ saved' > saved) =>
        /\ saved = 0 /\ saved' = 1
        /\ \A f \in FeedIds : CycleDone(f)
        /\ \A f \in FeedIds : SubIds(f) # {} => fetched[f] = 1
        /\ Len(downloaded) = Len(yielded) /\ Len(dispatched) = Len(yielded)
        /\ error = "none"
      ]_vars

\* the numbers have been saved after two feeds have each had a match
\* dispatched
C14_Witness ==
    /\ pc = "exit" /\ saved = 1 /\ error = "none"
    /\ Len(json.feeds) = 2
    /\ \A f \in FeedIds : \E k \in 1..Len(dispatched) : dispatched[k].feed = f
    /\ \E f \in FeedIds : \E s \in SubIds(f) :
           StoredNumber(f, s) = feeds[f].subscriptions[s].number

\* what a subscription's check cycle comes to, told from its own sub_dict
\* and the document of its feed alone: the entries whose title matches with
\* a number greater than the stored one, and the number of the first listed
\* of them (the last one the reverse scan reaches)
NumberIn(sub_dict, title) == from_regex_match(regex_search(sub_dict.pattern, title).groups)
Qualifying(sub_dict, doc) ==
    {e \in 1..Len(doc) :
        /\ regex_search(sub_dict.pattern, doc[e]).matched
        /\ ~Raises(NumberIn(sub_dict, doc[e]))
        /\ EpisodeNumber_gt(NumberIn(sub_dict, doc[e]),
                            EpisodeNumber(sub_dict.series_number, sub_dict.episode_number))}
FirstListed(S) == CHOOSE e \in S : \A d \in S : e <= d
FinalNumber(sub_dict, doc) ==
    IF Qualifying(sub_dict, doc) = {}
    THEN EpisodeNumber(sub_dict.series_number, sub_dict.episode_number)
    ELSE NumberIn(sub_dict, doc[FirstListed(Qualifying(sub_dict, doc))])

\* C15: when a feed's check cycle is over and no error has occurred, the
\* entries yielded for each of its subscriptions and the subscription's
\* number are those determined by the subscription's own sub_dict and the
\* feed's document, whatever the subscription's place among the feed's
\* subscriptions and the feed's place among the feeds.
C15_OrderIndependence ==
    \A f \in FeedIds : (CycleDone(f) /\ error = "none") =>
        \A s \in SubIds(f) :
            /\ {yielded[k].entry : k \in YieldsOf(f, s)} =
                   Qualifying(json.feeds[f].subscriptions[s], remote[f].entries)
            /\ feeds[f].subscriptions[s].number =
                   FinalNumber(json.feeds[f].subscriptions[s], remote[f].entries)

\* check_feeds has returned without an error; a feed has two subscriptions
\* with different stored numbers, both have matched, and they have not
\* matched the same entries
C15_Witness ==
    /\ pc = "feeds" /\ fi > Len(feeds) /\ error = "none"
    /\ \E f \in FeedIds : \E s, t \in SubIds(f) :
        /\ s < t
        /\ StoredNumber(f, s) # StoredNumber(f, t)
        /\ YieldsOf(f, s) # {} /\ YieldsOf(f, t) # {}
        /\ {yielded[k].entry : k \in YieldsOf(f, s)} #
               {yielded[k].entry : k \in YieldsOf(f, t)}

\* C16: an invocation in which no error has occurred has logged no
\* exception and called show_exception_notification not at all; an error
\* raised while the engine is built, the feeds are checked or the numbers
\* are saved takes main to its except clause, and the invocation then ends
\* as a failure with the exception logged once and the notification
\* function called once.
C16_ErrorsNotifiedOnce ==
    /\ error = "none" =>
        /\ notified = 0 /\ traceback = NoTraceback
        /\ pc # "except"
    /\ error # "none" =>
        /\ pc \in {"except", "exit"}
        /\ traceback.raised_in \in
               {"TorrentRSS.__init__", "fetch", "from_regex_match", "download_entry",
                "Command.__call__", "save_episode_numbers"}
        /\ pc = "except" => (notified = 0 /\ traceback.logged = 0)
        /\ pc = "exit" => (notified = 1 /\ traceback.logged = 1)

\* the invocation has failed while saving the numbers, after a dispatch,
\* and has notified
C16_Witness ==
    /\ pc = "exit" /\ error = "PermissionError"
    /\ traceback.raised_in = "save_episode_numbers"
    /\ Len(dispatched) >= 1
    /\ notified = 1

\* C17: in a feed that prefers the torrent url, a call of download_entry
\* makes no HTTP request and writes no file, and what it returns is the url
\* resolved for the entry, which is what the command then receives; the
\* feed's document is requested at most once.
C17_PreferUrlNoDownload ==
    \A f \in FeedIds : json.feeds[f].prefer_torrent_url =>
        /\ fetched[f] <= 1
        /\ \A k \in 1..Len(downloaded) : downloaded[k].feed = f =>
            /\ downloaded[k].requests = 0 /\ downloaded[k].written = 0
            /\ downloaded[k].result.kind # "raised" =>
                   downloaded[k].result = EntryUrl(f, downloaded[k].entry)
        /\ \A k \in 1..Len(dispatched) : dispatched[k].feed = f =>
               dispatched[k].path_or_url = EntryUrl(f, dispatched[k].entry)

\* a feed that prefers the torrent url has had a match dispatched for a
\* subscription that has a directory of its own
C17_Witness ==
    \E k \in 1..Len(dispatched) :
        /\ json.feeds[dispatched[k].feed].prefer_torrent_url
        /\ json.feeds[dispatched[k].feed].subscriptions[dispatched[k].sub].directory = "dir1"
        /\ dispatched[k].path_or_url.kind = "url"
        /\ fetched[dispatched[k].feed] = 1

\* the positions of the links of the torrent type
TorrentLinks(links) == {i \in 1..Len(links) : links[i].type = TORRENT_MIMETYPE}

\* C18: what torrent_url_for_entry returns is the href of the first link,
\* in list order, whose type is the torrent MIME type, and the entry's
\* primary link only when no link has that type; it returns whenever every
\* link has a type.
C18_FirstTorrentLink ==
    cmp.stage = "resolved" =>
        LET links == cmp.rss_entry.links
            T == TorrentLinks(links)
        IN  /\ (cmp.result.kind = "returned" /\ T # {}) =>
                   \E i \in T : /\ \A j \in T : i <= j
                                /\ cmp.result.value = links[i].href
            /\ (cmp.result.kind = "returned" /\ T = {}) =>
                   cmp.result.value = cmp.rss_entry.link
            /\ (\A i \in 1..Len(links) : links[i].type # Absent) =>
                   cmp.result.kind = "returned"

\* the entry resolved has another link before two torrent links with
\* different hrefs, and a primary link that is neither
C18_Witness ==
    /\ cmp.stage = "resolved"
    /\ Len(cmp.rss_entry.links) = 3
    /\ cmp.rss_entry.links[1].type = "text/html"
    /\ cmp.rss_entry.links[2] = Link(TORRENT_MIMETYPE, "href2")
    /\ cmp.rss_entry.links[3] = Link(TORRENT_MIMETYPE, "href1")
    /\ cmp.rss_entry.link = "href3"
    /\ cmp.result = Returned("href2")

\* the pair the scan is at is to be skipped: the title does not match the
\* subscription's pattern, or its number is not greater than the number
\* the subscription had at cycle start
SkippedPair ==
    /\ AtPair
    /\ \/ ~TitleMatches(fi, si, CurEntry)
       \/ /\ HasNumber(fi, si, CurEntry)
          /\ ~EpisodeNumber_gt(ExtractedNumber(fi, si, CurEntry), StoredNumber(fi, si))

\* C19: processing a pair that is to be skipped yields nothing, changes no
\* live number, downloads and dispatches nothing and raises no error: the
\* scan only moves on.
C19_SkipHasNoEffect ==
    [][SkippedPair =>
        /\ yielded' = yielded
        /\ feeds' = feeds
        /\ downloaded' = downloaded /\ dispatched' = dispatched
        /\ error' = "none" /\ pc' = "scan"
        /\ json' = json /\ original_numbers' = original_numbers
        /\ <<ei', si'>> # <<ei, si>>
      ]_vars

\* a feed's scan is over: one of its subscriptions matched the title of an
\* entry whose number was not greater, did not match another entry at all,
\* and has yielded nothing and still has its number
C19_Witness ==
    /\ pc = "scan" /\ ei = 0 /\ error = "none"
    /\ \E s \in SubIds(fi) :
        /\ \E e \in EntryIds(fi) :
            /\ HasNumber(fi, s, e)
            /\ ~EpisodeNumber_gt(ExtractedNumber(fi, s, e), StoredNumber(fi, s))
        /\ \E e \in EntryIds(fi) : ~TitleMatches(fi, s, e)
        /\ YieldsOf(fi, s) = {}
        /\ feeds[fi].subscriptions[s].number = StoredNumber(fi, s)

\* C20: when the fetch of a feed's document fails, the invocation has a
\* FeedError, nothing of that feed has been yielded, downloaded or
\* dispatched, and the numbers of the feed's subscriptions are what they
\* were before the fetch (the stored ones).
C20_FetchFailureYieldsNothing ==
    traceback.raised_in = "fetch" =>
        /\ error = "FeedError"
        /\ fetched[fi] = 1
        /\ \A k \in 1..Len(yielded) : yielded[k].feed # fi
        /\ \A k \in 1..Len(downloaded) : downloaded[k].feed # fi
        /\ \A k \in 1..Len(dispatched) : dispatched[k].feed # fi
        /\ \A s \in SubIds(fi) : feeds[fi].subscriptions[s].number = StoredNumber(fi, s)

\* the fetch of the second feed has failed after a match of the first was
\* dispatched; the second feed's subscription has a stored number
C20_Witness ==
    /\ pc = "exit" /\ traceback.raised_in = "fetch"
    /\ fi = 2
    /\ Len(dispatched) >= 1
    /\ \E s \in SubIds(2) : StoredNumber(2, s).episode # None

\* C21: when a feed's check cycle is over (and the numbers are not yet
\* saved), the number of each of its subscriptions differs from the number
\* the cycle started with exactly when a match was yielded for it, and a
\* number that differs is greater than the one the cycle started with and
\* not the other way round.
C21_EndNumberAboveBaseline ==
    \A f \in FeedIds : CycleDone(f) =>
        \A s \in SubIds(f) :
            LET live == feeds[f].subscriptions[s].number
                baseline == StoredNumber(f, s)
            IN  /\ ~EpisodeNumber_eq(live, baseline) <=> YieldsOf(f, s) # {}
                /\ ~EpisodeNumber_eq(live, baseline) =>
                       /\ EpisodeNumber_gt(live, baseline)
                       /\ ~EpisodeNumber_gt(baseline, live)

\* check_feeds has returned: of two subscriptions with a stored number one
\* has matched and has a new number, the other has not matched and
\* has the number it started with
C21_Witness ==
    /\ pc = "feeds" /\ fi > Len(feeds) /\ error = "none"
    /\ \E f \in FeedIds : \E s, t \in SubIds(f) :
        /\ StoredNumber(f, s).episode # None /\ StoredNumber(f, t).episode # None
        /\ Cardinality(YieldsOf(f, s)) >= 1
        /\ feeds[f].subscriptions[s].number # StoredNumber(f, s)
        /\ YieldsOf(f, t) = {}
        /\ feeds[f].subscriptions[t].number = StoredNumber(f, t)

\* the functions check_feeds calls that raise
RaisedInCheckFeeds ==
    traceback.raised_in \in {"fetch", "from_regex_match", "download_entry", "Command.__call__"}

\* C22: an invocation in which fetching, downloading or launching has raised
\* an error has not called save_episode_numbers, and as long as an
\* invocation has not called it the stored tree is what it was when the
\* invocation started, whatever has been dispatched already.
C22_NoSaveOnAbort ==
    [][/\ saved' = 0 => json' = json
       /\ RaisedInCheckFeeds' => saved' = 0
      ]_vars

\* the invocation has failed on the launch for its second match; the first
\* was dispatched and its subscription's new number is not in the stored tree
C22_Witness ==
    /\ pc = "exit" /\ traceback.raised_in = "Command.__call__"
    /\ saved = 0
    /\ Len(dispatched) >= 2
    /\ feeds[dispatched[1].feed].subscriptions[dispatched[1].sub].number #
           StoredNumber(dispatched[1].feed, dispatched[1].sub)

\* the number the next invocation constructs for a subscription from the
\* stored tree
ReloadedNumber(f, s) ==
    Feed_init(Config(json), json.feeds[f]).subscriptions[s].number

\* C23: when an invocation has saved the numbers, the number the next
\* invocation constructs for each subscription from the stored tree equals
\* the subscription's live number at the end of this invocation, series and
\* episode both (None equal to None).
C23_SaveLoadRoundTrip ==
    (pc = "exit" /\ error = "none" /\ saved = 1) =>
        \A f \in FeedIds : \A s \in SubIds(f) :
            EpisodeNumber_eq(ReloadedNumber(f, s), feeds[f].subscriptions[s].number)

\* series and episode are both present
BothPresent(n) == n.series # None /\ n.episode # None

\* the strict lexicographic order on (series, episode)
LexGreater(a, b) ==
    \/ NumberOf(a.series) > NumberOf(b.series)
    \/ a.series = b.series /\ NumberOf(a.episode) > NumberOf(b.episode)

\* C24: on EpisodeNumbers whose series and episode are both present, __gt__
\* is the strict lexicographic order on (series, episode): no number is
\* greater than itself, of two unequal numbers exactly one is greater than
\* the other, and a number greater than one that is greater than a third is
\* greater than the third.
C24_GtIsLexicographic ==
    (cmp.stage = "done" /\ BothPresent(cmp.a) /\ BothPresent(cmp.b)) =>
        /\ cmp.gt_ab <=> LexGreater(cmp.a, cmp.b)
        /\ cmp.gt_ba <=> LexGreater(cmp.b, cmp.a)
        /\ cmp.eq => (~cmp.gt_ab /\ ~cmp.gt_ba)
        /\ ~cmp.eq => (cmp.gt_ab <=> ~cmp.gt_ba)
        /\ \A c \in {n \in EpisodeNumbers : BothPresent(n)} :
               (cmp.gt_ab /\ EpisodeNumber_gt(cmp.b, c)) => EpisodeNumber_gt(cmp.a, c)

\* a number with the higher series and the lower episode has been compared
\* with another, both ways
C24_Witness ==
    /\ cmp.stage = "done"
    /\ BothPresent(cmp.a) /\ BothPresent(cmp.b)
    /\ NumberOf(cmp.a.series) > NumberOf(cmp.b.series)
    /\ NumberOf(cmp.a.episode) < NumberOf(cmp.b.episode)
    /\ cmp.gt_ab /\ ~cmp.gt_ba /\ ~cmp.eq

\* the pair (s, e) of feed f has been dispatched in this invocation
Dispatched(f, s, e) ==
    \E k \in 1..Len(dispatched) :
        dispatched[k].feed = f /\ dispatched[k].sub = s /\ dispatched[k].entry = e

\* C25: when a feed's check cycle is over and no error has occurred, two
\* different entries of the feed that match a subscription with the same
\* number, greater than the number the cycle started with, have both been
\* yielded, once each, and both been dispatched.
C25_NoDedupByNumber ==
    \A f \in FeedIds : (CycleDone(f) /\ error = "none") =>
        \A s \in SubIds(f) : \A d, e \in EntryIds(f) :
            ( /\ d # e
              /\ HasNumber(f, s, d) /\ HasNumber(f, s, e)
              /\ EpisodeNumber_eq(ExtractedNumber(f, s, d), ExtractedNumber(f, s, e))
              /\ EpisodeNumber_gt(ExtractedNumber(f, s, e), StoredNumber(f, s)) )
            => /\ TimesYielded(f, s, d) = 1 /\ TimesYielded(f, s, e) = 1
               /\ Dispatched(f, s, d) /\ Dispatched(f, s, e)

\* check_feeds has returned: two entries with different titles gave a
\* subscription with a stored number the same new number, and both were
\* dispatched
C25_Witness ==
    /\ pc = "feeds" /\ fi > Len(feeds) /\ error = "none"
    /\ \E f \in FeedIds : \E s \in SubIds(f) : \E d, e \in EntryIds(f) :
        /\ d < e
        /\ remote[f].entries[d] # remote[f].entries[e]
        /\ StoredNumber(f, s).episode # None
        /\ HasNumber(f, s, d) /\ HasNumber(f, s, e)
        /\ ExtractedNumber(f, s, d) = ExtractedNumber(f, s, e)
        /\ Dispatched(f, s, d) /\ Dispatched(f, s, e)

====
